---------------------------- MODULE Spec2Model ----------------------------
(* A model of internal/daemonset/daemonset.go of kernel-module-management:  *)
(* the DaemonSet garbage collector and index, the two DaemonSet generators, *)
(* the modprobe command synthesis and the node readiness label keys.        *)
EXTENDS Naturals, Sequences, FiniteSets, TLC

(***************************************************************************)
(* Bounds of the model.                                                    *)
(***************************************************************************)
MaxDS == 3

(***************************************************************************)
(* Go values.  A map[string]string is a function whose DOMAIN is the set   *)
(* of its keys; reading a missing key gives the zero value "".  A slice    *)
(* that may be nil is a record [isNil, items].                             *)
(***************************************************************************)
EmptyMap == <<>>

MapGet(m, k) == IF k \in DOMAIN m THEN m[k] ELSE ""

NilSlice == [isNil |-> TRUE, items |-> <<>>]

Slice(s) == [isNil |-> FALSE, items |-> s]

devicePluginKernelVersion == ""

kernelLabel == "kmm.node.kubernetes.io/kernel-version.full"

ModuleNameLabel == "kmm.node.kubernetes.io/module.name"

DaemonSetRole == "kmm.node.kubernetes.io/role"

(***************************************************************************)
(* The object store: DaemonSets by name, each with its labels.             *)
(***************************************************************************)
DSNames == 1..MaxDS

KernelVersions == {"5.10", "5.14"}

StoredLabels ==
    {EmptyMap, (DaemonSetRole :> "device-plugin")}
    \cup {(kernelLabel :> kv) @@ (DaemonSetRole :> "module-loader") : kv \in KernelVersions}

Stores == UNION {[S -> StoredLabels] : S \in SUBSET DSNames}

VARIABLES store, lookup, validKernels, gc, deleteCalls,
          cmdIn, loadCmd, unloadCmd,
          target, genIn, genOut,
          nodeLabels, lastLabel

gcVars == <<store, lookup, validKernels, gc, deleteCalls>>

cmdVars == <<cmdIn, loadCmd, unloadCmd>>

genVars == <<target, genIn, genOut>>

nodeVars == <<nodeLabels, lastLabel>>

vars == <<store, lookup, validKernels, gc, deleteCalls, cmdIn, loadCmd, unloadCmd,
          target, genIn, genOut, nodeLabels, lastLabel>>

DS(n, labels) == [name |-> n, labels |-> labels]

(***************************************************************************)
(* moduleDaemonSets: client.List; the items come in any order, or the      *)
(* call fails.                                                             *)
(***************************************************************************)
Orderings(S) == {s \in [1..Cardinality(S) -> S] : \A i, j \in 1..Cardinality(S) : i # j => s[i] # s[j]}

moduleDaemonSets(listFails, order) ==
    IF listFails THEN [err |-> TRUE, items |-> <<>>]
    ELSE [err |-> FALSE, items |-> [i \in 1..Len(order) |-> DS(order[i], store[order[i]])]]

(***************************************************************************)
(* ModuleDaemonSetsByKernelVersion: the loop over dsList.                  *)
(***************************************************************************)
RECURSIVE indexLoop(_, _, _)
indexLoop(dsList, i, dsByKernelVersion) ==
    IF i > Len(dsList) THEN [err |-> FALSE, map |-> dsByKernelVersion]
    ELSE LET ds == dsList[i]
             kernelVersion == MapGet(ds.labels, kernelLabel)
         IN IF kernelVersion \in DOMAIN dsByKernelVersion
            THEN [err |-> TRUE, map |-> EmptyMap]
            ELSE indexLoop(dsList, i + 1, (kernelVersion :> ds) @@ dsByKernelVersion)

RECURSIVE indexLoopOverwrite(_, _, _)
indexLoopOverwrite(dsList, i, dsByKernelVersion) ==
    IF i > Len(dsList) THEN [err |-> FALSE, map |-> dsByKernelVersion]
    ELSE LET ds == dsList[i]
             kernelVersion == MapGet(ds.labels, kernelLabel)
         IN indexLoopOverwrite(dsList, i + 1, (kernelVersion :> ds) @@ dsByKernelVersion)

ByKernelVersionOverwrite(listed) ==
    IF listed.err THEN [err |-> TRUE, map |-> EmptyMap]
    ELSE indexLoopOverwrite(listed.items, 1, EmptyMap)

ByKernelVersion(listed) ==
    IF listed.err THEN [err |-> TRUE, map |-> EmptyMap]
    ELSE indexLoop(listed.items, 1, EmptyMap)

NoLookup == [called |-> FALSE, listed |-> [err |-> FALSE, items |-> <<>>], err |-> FALSE, map |-> EmptyMap]

GCIdle == [pc |-> "idle", visited |-> {}, deleted |-> <<>>, ret |-> NilSlice, err |-> FALSE]

\* One reconcile pass: the lookup comes first and is made once.
ModuleDaemonSetsByKernelVersion ==
    /\ ~lookup.called
    /\ \E listFails \in BOOLEAN, order \in Orderings(DOMAIN store) :
          LET listed == moduleDaemonSets(listFails, order)
              r == ByKernelVersion(listed)
          IN lookup' = [called |-> TRUE, listed |-> listed, err |-> r.err, map |-> r.map]
    /\ gc' = GCIdle
    /\ deleteCalls' = <<>>
    /\ UNCHANGED <<store, validKernels, cmdVars, genVars, nodeVars>>

(***************************************************************************)
(* The reconcile loop applies a generated DaemonSet under a fresh name     *)
(* between the lookup and the end of the garbage collection.               *)
(***************************************************************************)
ApplyDaemonSet ==
    /\ lookup.called
    /\ \E n \in DSNames \ DOMAIN store, l \in StoredLabels :
          /\ \A k \in DOMAIN lookup.map : lookup.map[k].name # n
          /\ store' = (n :> l) @@ store
    /\ UNCHANGED <<lookup, validKernels, gc, deleteCalls, cmdVars, genVars, nodeVars>>

(***************************************************************************)
(* GarbageCollect.                                                         *)
(***************************************************************************)
isDevicePluginDaemonSet(ds) == MapGet(ds.labels, kernelLabel) = ""

ShouldDeleteNoSentinel(kernelVersion, ds) == kernelVersion \notin validKernels

ShouldDeleteAnyKernel(kernelVersion, ds) == ~isDevicePluginDaemonSet(ds)

ShouldDelete(kernelVersion, ds) ==
    ~isDevicePluginDaemonSet(ds) /\ kernelVersion \notin validKernels

\* The loop body after client.Delete returned.
AfterDeleteContinue(g, kernelVersion, ds, failed) ==
    IF failed
    THEN [g EXCEPT !.visited = @ \cup {kernelVersion}, !.err = TRUE]
    ELSE [g EXCEPT !.visited = @ \cup {kernelVersion}, !.deleted = Append(@, ds.name)]

AfterDelete(g, kernelVersion, ds, failed) ==
    IF failed
    THEN [g EXCEPT !.pc = "done", !.visited = @ \cup {kernelVersion}, !.ret = NilSlice, !.err = TRUE]
    ELSE [g EXCEPT !.visited = @ \cup {kernelVersion}, !.deleted = Append(@, ds.name)]

GCStart ==
    /\ gc.pc = "idle"
    /\ lookup.called /\ ~lookup.err
    /\ \E valid \in SUBSET (KernelVersions \cup {devicePluginKernelVersion}) :
          validKernels' = valid
    /\ gc' = [GCIdle EXCEPT !.pc = "loop"]
    /\ deleteCalls' = <<>>
    /\ UNCHANGED <<store, lookup, cmdVars, genVars, nodeVars>>

\* One iteration of the range loop; Go visits the keys of a map in any order.
\* client.Delete fails when the object is gone, and may fail otherwise.
GCIterate ==
    /\ gc.pc = "loop"
    /\ \E kernelVersion \in DOMAIN lookup.map \ gc.visited :
          LET ds == lookup.map[kernelVersion] IN
          IF ShouldDelete(kernelVersion, ds)
          THEN \E deleteFails \in BOOLEAN :
                  LET failed == deleteFails \/ ds.name \notin DOMAIN store IN
                  /\ deleteCalls' = Append(deleteCalls, [name |-> ds.name, key |-> kernelVersion, ok |-> ~failed])
                  /\ gc' = AfterDelete(gc, kernelVersion, ds, failed)
                  /\ store' = IF failed THEN store
                              ELSE [n \in DOMAIN store \ {ds.name} |-> store[n]]
          ELSE /\ gc' = [gc EXCEPT !.visited = @ \cup {kernelVersion}]
               /\ UNCHANGED <<store, deleteCalls>>
    /\ UNCHANGED <<lookup, validKernels, cmdVars, genVars, nodeVars>>

GCReturn ==
    /\ gc.pc = "loop"
    /\ gc.visited = DOMAIN lookup.map
    /\ gc' = [gc EXCEPT !.pc = "done", !.ret = Slice(gc.deleted), !.err = FALSE]
    /\ UNCHANGED <<store, lookup, validKernels, deleteCalls, cmdVars, genVars, nodeVars>>

(***************************************************************************)
(* Strings that are built and taken apart.  Such a string is a sequence of *)
(* pieces, each the single space " " or a non-empty text without a space;  *)
(* the string it stands for is the pieces put together (Flat).             *)
(***************************************************************************)
RECURSIVE Flat(_)
Flat(s) == IF s = <<>> THEN "" ELSE Head(s) \o Flat(Tail(s))

\* strings.Join(list, " ")
RECURSIVE JoinSpace(_)
JoinSpace(list) ==
    IF list = <<>> THEN <<>>
    ELSE IF Len(list) = 1 THEN list[1]
    ELSE list[1] \o <<" ">> \o JoinSpace(Tail(list))

nodeVarLibFirmwarePath == <<"/var/lib/firmware">>

NilArgs == [isNil |-> TRUE, Load |-> <<>>, Unload |-> <<>>]

ArgsOf(load, unload) == [isNil |-> FALSE, Load |-> load, Unload |-> unload]

Shell(command) == <<<<"/bin/sh">>, <<"-c">>, command>>

\* The firmware staging step placed before the RawArgs test.
MakeLoadCommandStageFirst(spec, modName) ==
    LET c0 == <<"modprobe">>
        fw == spec.FirmwarePath
        c1 == IF fw # <<>>
              THEN <<"cp", " ", "-r", " ">> \o fw \o <<" ">> \o nodeVarLibFirmwarePath
                     \o <<"/">> \o modName \o <<" ", "&&", " ">> \o c0
              ELSE c0
    IN Shell(c1 \o <<" ">> \o JoinSpace(spec.RawArgs.Load))

\* The parameters placed before the module name.
MakeLoadCommandParamsFirst(spec, modName) ==
    LET c0 == <<"modprobe">>
        fw == spec.FirmwarePath
        c1 == IF fw # <<>>
              THEN <<"cp", " ", "-r", " ">> \o fw \o <<" ">> \o nodeVarLibFirmwarePath
                     \o <<"/">> \o modName \o <<" ", "&&", " ">> \o c0
              ELSE c0
        c2 == IF ~spec.Args.isNil /\ Len(spec.Args.Load) > 0
              THEN c1 \o <<" ">> \o JoinSpace(spec.Args.Load)
              ELSE c1 \o <<" ", "-v">>
        c3 == IF spec.DirName # <<>> THEN c2 \o <<" ", "-d", " ">> \o spec.DirName ELSE c2
        c4 == IF Len(spec.Parameters) > 0
              THEN c3 \o <<" ">> \o JoinSpace(spec.Parameters)
              ELSE c3
    IN Shell(c4 \o <<" ">> \o spec.ModuleName)

MakeLoadCommandDerived(spec, modName) ==
    LET c0 == <<"modprobe">>
        fw == spec.FirmwarePath
        c1 == IF fw # <<>>
              THEN <<"cp", " ", "-r", " ">> \o fw \o <<" ">> \o nodeVarLibFirmwarePath
                     \o <<"/">> \o modName \o <<" ", "&&", " ">> \o c0
              ELSE c0
        c2 == IF ~spec.Args.isNil /\ Len(spec.Args.Load) > 0
              THEN c1 \o <<" ">> \o JoinSpace(spec.Args.Load)
              ELSE c1 \o <<" ", "-v">>
        c3 == IF spec.DirName # <<>> THEN c2 \o <<" ", "-d", " ">> \o spec.DirName ELSE c2
        c4 == c3 \o <<" ">> \o spec.ModuleName
        c5 == IF Len(spec.Parameters) > 0
              THEN c4 \o <<" ">> \o JoinSpace(spec.Parameters)
              ELSE c4
    IN Shell(c5)

MakeLoadCommandRaw(spec, modName) ==
    Shell(<<"modprobe">> \o <<" ">> \o JoinSpace(spec.RawArgs.Load))

MakeLoadCommand(spec, modName) ==
    IF ~spec.RawArgs.isNil /\ Len(spec.RawArgs.Load) > 0
    THEN MakeLoadCommandRaw(spec, modName)
    ELSE MakeLoadCommandDerived(spec, modName)

MakeUnloadCommand(spec, modName) ==
    LET c0 == <<"modprobe">> IN
    IF ~spec.RawArgs.isNil /\ Len(spec.RawArgs.Unload) > 0
    THEN Shell(c0 \o <<" ">> \o JoinSpace(spec.RawArgs.Unload))
    ELSE LET c1 == IF ~spec.Args.isNil /\ Len(spec.Args.Unload) > 0
                   THEN c0 \o <<" ">> \o JoinSpace(spec.Args.Unload)
                   ELSE c0 \o <<" ", "-rv">>
             c2 == IF spec.DirName # <<>> THEN c1 \o <<" ", "-d", " ">> \o spec.DirName ELSE c1
             c3 == c2 \o <<" ">> \o spec.ModuleName
             c4 == IF spec.FirmwarePath # <<>>
                   THEN c3 \o <<" ", "&&", " ", "rm", " ", "-rf", " ">>
                          \o nodeVarLibFirmwarePath \o <<"/">> \o modName
                   ELSE c3
         IN Shell(c4)

(***************************************************************************)
(* The inputs the command synthesis is applied to.                         *)
(***************************************************************************)
MaxParams == 2

KernelModuleNames == {<<"m">>, <<"kmm_ci_a">>}

ModuleNames == {<<"m">>, <<"kmm-ci-build">>}

FirmwarePaths == {<<>>, <<"/firmware">>}

DirNames == {<<>>, <<"/opt">>, <<"m">>, <<"/my", " ", "m">>}

ParamWords == {<<"p1=1">>, <<"m">>}

ParameterLists == UNION {[1..n -> ParamWords] : n \in 0..MaxParams}

ArgsValues ==
    {NilArgs, ArgsOf(<<>>, <<>>), ArgsOf(<<<<"-f">>>>, <<<<"-r">>, <<"-f">>>>),
     ArgsOf(<<<<"-a">>, <<"m">>>>, <<>>)}

RawArgsValues ==
    {NilArgs, ArgsOf(<<>>, <<>>), ArgsOf(<<<<"-v">>, <<"m">>>>, <<>>),
     ArgsOf(<<>>, <<<<"-rv">>, <<"m">>>>), ArgsOf(<<<<"-f">>, <<"kmm_ci_a">>>>, <<<<"-r">>, <<"kmm_ci_a">>>>)}

ModprobeSpecs ==
    [ModuleName : KernelModuleNames, DirName : DirNames, FirmwarePath : FirmwarePaths,
     Parameters : ParameterLists, Args : ArgsValues, RawArgs : RawArgsValues]

NotCalled == [called |-> FALSE, cmd |-> <<>>]

Called(c) == [called |-> TRUE, cmd |-> c]

CallMakeLoadCommand ==
    /\ ~loadCmd.called
    /\ loadCmd' = Called(MakeLoadCommand(cmdIn.spec, cmdIn.modName))
    /\ UNCHANGED <<cmdIn, unloadCmd, gcVars, genVars, nodeVars>>

CallMakeUnloadCommand ==
    /\ ~unloadCmd.called
    /\ unloadCmd' = Called(MakeUnloadCommand(cmdIn.spec, cmdIn.modName))
    /\ UNCHANGED <<cmdIn, loadCmd, gcVars, genVars, nodeVars>>

\* The module is edited in one field, and the commands made so far are made
\* again from the new spec.
Remake(in) ==
    /\ in # cmdIn
    /\ cmdIn' = in
    /\ loadCmd' = IF loadCmd.called THEN Called(MakeLoadCommand(in.spec, in.modName)) ELSE loadCmd
    /\ unloadCmd' = IF unloadCmd.called THEN Called(MakeUnloadCommand(in.spec, in.modName)) ELSE unloadCmd
    /\ UNCHANGED <<gcVars, genVars, nodeVars>>

EditModule ==
    \/ \E v \in KernelModuleNames : Remake([cmdIn EXCEPT !.spec.ModuleName = v])
    \/ \E v \in DirNames : Remake([cmdIn EXCEPT !.spec.DirName = v])
    \/ \E v \in FirmwarePaths : Remake([cmdIn EXCEPT !.spec.FirmwarePath = v])
    \/ \E v \in ParameterLists : Remake([cmdIn EXCEPT !.spec.Parameters = v])
    \/ \E v \in ArgsValues : Remake([cmdIn EXCEPT !.spec.Args = v])
    \/ \E v \in RawArgsValues : Remake([cmdIn EXCEPT !.spec.RawArgs = v])
    \/ \E v \in ModuleNames : Remake([cmdIn EXCEPT !.modName = v])

CmdIdle ==
    /\ cmdIn = [spec |-> [ModuleName |-> <<"m">>, DirName |-> <<>>, FirmwarePath |-> <<>>,
                          Parameters |-> <<>>, Args |-> NilArgs, RawArgs |-> NilArgs],
                modName |-> <<"m">>]
    /\ loadCmd = NotCalled
    /\ unloadCmd = NotCalled

(***************************************************************************)
(* Label and pull-secret helpers.                                          *)
(***************************************************************************)
CopyMapStringString(m) == [k \in DOMAIN m |-> m[k]]

OverrideLabels(labels, overrides) == overrides @@ labels

getDriverContainerNodeLabel(moduleName) == "kmm.node.kubernetes.io/" \o moduleName \o ".ready"

getDevicePluginNodeLabel(moduleName) ==
    "kmm.node.kubernetes.io/" \o moduleName \o ".device-plugin-ready"

GetPodPullSecretsEmptyList(secret) ==
    IF secret.isNil THEN Slice(<<>>) ELSE Slice(<<secret.name>>)

GetPodPullSecrets(secret) ==
    IF secret.isNil THEN NilSlice ELSE Slice(<<secret.name>>)

GetNodeLabelFromPodSwapped(pod, moduleName) ==
    IF MapGet(pod.labels, kernelLabel) = devicePluginKernelVersion
    THEN getDriverContainerNodeLabel(moduleName)
    ELSE getDevicePluginNodeLabel(moduleName)

GetNodeLabelFromPod(pod, moduleName) ==
    LET kernelVersion == MapGet(pod.labels, kernelLabel) IN
    IF kernelVersion = devicePluginKernelVersion
    THEN getDevicePluginNodeLabel(moduleName)
    ELSE getDriverContainerNodeLabel(moduleName)

(***************************************************************************)
(* controllerutil.SetControllerReference as the generators use it: it      *)
(* fails when the scheme does not know the owner's kind or when the object *)
(* already has another controller, and otherwise puts the owner's          *)
(* controller reference in place of any reference to the same owner.       *)
(***************************************************************************)
ControllerRef(owner) == [owner |-> owner, controller |-> TRUE]

SetControllerReference(owner, object, schemeOK) ==
    IF ~schemeOK THEN [err |-> TRUE, ds |-> object]
    ELSE IF \E r \in object.ownerRefs : r.controller /\ r.owner # owner
    THEN [err |-> TRUE, ds |-> object]
    ELSE [err |-> FALSE,
          ds |-> [object EXCEPT !.ownerRefs =
                     {r \in @ : r.owner # owner} \cup {ControllerRef(owner)}]]

NodeLabelerFinalizer == "kmm.node.kubernetes.io/node-labeler"

(***************************************************************************)
(* SetDriverContainerAsDesired.                                            *)
(***************************************************************************)
DriverContainerSpec(image, mod, kernelVersion) ==
    LET standardLabels == (ModuleNameLabel :> mod.Name) @@ (kernelLabel :> kernelVersion)
                            @@ (DaemonSetRole :> "module-loader")
        nodeSelector == (kernelLabel :> kernelVersion) @@ CopyMapStringString(mod.Selector)
        fw == mod.Modprobe.FirmwarePath
        moduleFirmwarePath == "/var/lib/firmware" \o "/" \o mod.Name
        mounts == <<[Name |-> "node-lib-modules", ReadOnly |-> TRUE, MountPath |-> "/lib/modules"],
                    [Name |-> "node-usr-lib-modules", ReadOnly |-> TRUE, MountPath |-> "/usr/lib/modules"]>>
        container ==
            [Command |-> <<"sleep", "infinity">>,
             Name |-> "module-loader",
             Image |-> image,
             PostStart |-> MakeLoadCommand(mod.Modprobe, <<mod.Name>>),
             PreStop |-> MakeUnloadCommand(mod.Modprobe, <<mod.Name>>),
             AllowPrivilegeEscalation |-> FALSE,
             Privileged |-> FALSE,
             Capabilities |-> <<"SYS_MODULE">>,
             VolumeMounts |->
                IF fw # <<>>
                THEN Append(mounts, [Name |-> "node-var-lib-firmware", ReadOnly |-> FALSE,
                                     MountPath |-> moduleFirmwarePath])
                ELSE mounts]
        volumes == <<[Name |-> "node-lib-modules", Path |-> "/lib/modules", Type |-> "Directory"],
                     [Name |-> "node-usr-lib-modules", Path |-> "/usr/lib/modules", Type |-> "Directory"]>>
    IN [isZero |-> FALSE,
        Selector |-> standardLabels,
        TemplateLabels |-> standardLabels,
        Finalizers |-> <<NodeLabelerFinalizer>>,
        Containers |-> <<container>>,
        ImagePullSecrets |-> GetPodPullSecrets(mod.ImageRepoSecret),
        NodeSelector |-> nodeSelector,
        PriorityClassName |-> "system-node-critical",
        ServiceAccountName |-> mod.LoaderServiceAccount,
        Volumes |->
            IF fw # <<>>
            THEN Append(volumes, [Name |-> "node-var-lib-firmware", Path |-> moduleFirmwarePath,
                                  Type |-> "DirectoryOrCreate"])
            ELSE volumes]

SetDriverContainerAsDesiredResult(d, image, mod, kernelVersion, schemeOK) ==
    IF d.isNil THEN [err |-> TRUE, ds |-> d]
    ELSE IF image = "" THEN [err |-> TRUE, ds |-> d]
    ELSE IF kernelVersion = "" THEN [err |-> TRUE, ds |-> d]
    ELSE LET standardLabels == (ModuleNameLabel :> mod.Name) @@ (kernelLabel :> kernelVersion)
                                 @@ (DaemonSetRole :> "module-loader")
             d1 == [d EXCEPT !.labels = OverrideLabels(d.labels, standardLabels)]
             d2 == [d1 EXCEPT !.spec = DriverContainerSpec(image, mod, kernelVersion)]
         IN SetControllerReference(mod.Name, d2, schemeOK)

(***************************************************************************)
(* SetDevicePluginAsDesired.                                               *)
(***************************************************************************)
DevicePluginNodeSelectorOwnKey(mod) == (getDevicePluginNodeLabel(mod.Name) :> "")

DevicePluginNodeSelector(mod) == (getDriverContainerNodeLabel(mod.Name) :> "")

DevicePluginSpec(mod) ==
    LET standardLabels == (ModuleNameLabel :> mod.Name) @@ (DaemonSetRole :> "device-plugin")
        container ==
            [Command |-> mod.DevicePlugin.Command,
             Name |-> "device-plugin",
             Image |-> mod.DevicePlugin.Image,
             PostStart |-> <<>>,
             PreStop |-> <<>>,
             AllowPrivilegeEscalation |-> TRUE,
             Privileged |-> TRUE,
             Capabilities |-> <<>>,
             VolumeMounts |->
                mod.DevicePlugin.VolumeMounts
                  \o <<[Name |-> "kubelet-device-plugins", ReadOnly |-> FALSE,
                        MountPath |-> "/var/lib/kubelet/device-plugins"]>>]
    IN [isZero |-> FALSE,
        Selector |-> standardLabels,
        TemplateLabels |-> standardLabels,
        Finalizers |-> <<NodeLabelerFinalizer>>,
        Containers |-> <<container>>,
        ImagePullSecrets |-> GetPodPullSecrets(mod.ImageRepoSecret),
        NodeSelector |-> DevicePluginNodeSelector(mod),
        PriorityClassName |-> "system-node-critical",
        ServiceAccountName |-> mod.DevicePlugin.ServiceAccountName,
        Volumes |->
            <<[Name |-> "kubelet-device-plugins", Path |-> "/var/lib/kubelet/device-plugins",
               Type |-> "Directory"]>> \o mod.DevicePlugin.Volumes]

SetDevicePluginAsDesiredResult(d, mod, schemeOK) ==
    IF d.isNil THEN [err |-> TRUE, ds |-> d]
    ELSE IF mod.DevicePlugin.isNil THEN [err |-> TRUE, ds |-> d]
    ELSE LET standardLabels == (ModuleNameLabel :> mod.Name) @@ (DaemonSetRole :> "device-plugin")
             d1 == [d EXCEPT !.labels = OverrideLabels(d.labels, standardLabels)]
             d2 == [d1 EXCEPT !.spec = DevicePluginSpec(mod)]
         IN SetControllerReference(mod.Name, d2, schemeOK)

(***************************************************************************)
(* The inputs of the generators.                                           *)
(***************************************************************************)
ZeroSpec ==
    [isZero |-> TRUE, Selector |-> EmptyMap, TemplateLabels |-> EmptyMap, Finalizers |-> <<>>,
     Containers |-> <<>>, ImagePullSecrets |-> NilSlice, NodeSelector |-> EmptyMap,
     PriorityClassName |-> "", ServiceAccountName |-> "", Volumes |-> <<>>]

NilDS == [isNil |-> TRUE, labels |-> EmptyMap, spec |-> ZeroSpec, ownerRefs |-> {}]

ModNames == {"a", "b"}

OwnerRefSets == {{}} \cup {{ControllerRef(o)} : o \in ModNames \cup {"other"}}
                  \cup {{[owner |-> "other", controller |-> FALSE]}}

DSObjects ==
    {NilDS}
    \cup [isNil : {FALSE},
          labels : {EmptyMap, ("app" :> "x") @@ (kernelLabel :> "4.18")},
          spec : {ZeroSpec},
          ownerRefs : OwnerRefSets]

NilSecret == [isNil |-> TRUE, name |-> ""]

NilDevicePlugin ==
    [isNil |-> TRUE, Image |-> "", Command |-> <<>>, ServiceAccountName |-> "",
     VolumeMounts |-> <<>>, Volumes |-> <<>>]

DevicePlugins ==
    {NilDevicePlugin,
     [isNil |-> FALSE, Image |-> "plugin:1", Command |-> <<"/plugin">>, ServiceAccountName |-> "sa-dp",
      VolumeMounts |-> <<>>, Volumes |-> <<>>],
     [isNil |-> FALSE, Image |-> "plugin:1", Command |-> <<>>, ServiceAccountName |-> "",
      VolumeMounts |-> <<[Name |-> "dev", ReadOnly |-> FALSE, MountPath |-> "/dev"]>>,
      Volumes |-> <<[Name |-> "dev", Path |-> "/dev", Type |-> "Directory"]>>]}

GenModprobeSpecs ==
    {[ModuleName |-> <<"kmm_ci_a">>, DirName |-> <<>>, FirmwarePath |-> fw,
      Parameters |-> <<>>, Args |-> NilArgs, RawArgs |-> NilArgs] : fw \in FirmwarePaths}

Modules ==
    [Name : ModNames,
     Selector : {EmptyMap, ("kubernetes.io/hostname" :> "minikube")},
     ImageRepoSecret : {NilSecret, [isNil |-> FALSE, name |-> "pull-secret"]},
     LoaderServiceAccount : {"sa-ml"},
     Modprobe : GenModprobeSpecs,
     DevicePlugin : DevicePlugins]

GenInputs ==
    [mod : Modules, image : {"", "registry.minikube/kmm-kmod:local"},
     kernelVersion : {"", "5.10"}, schemeOK : BOOLEAN]

NoGen == [called |-> "none", err |-> FALSE, before |-> NilDS]

CallSetDriverContainerAsDesired ==
    /\ LET r == SetDriverContainerAsDesiredResult(target, genIn.image, genIn.mod, genIn.kernelVersion,
                                                  genIn.schemeOK)
       IN /\ target' = r.ds
          /\ genOut' = [called |-> "driver", err |-> r.err, before |-> target]
    /\ UNCHANGED <<genIn, gcVars, cmdVars, nodeVars>>

CallSetDevicePluginAsDesired ==
    /\ LET r == SetDevicePluginAsDesiredResult(target, genIn.mod, genIn.schemeOK)
       IN /\ target' = r.ds
          /\ genOut' = [called |-> "plugin", err |-> r.err, before |-> target]
    /\ UNCHANGED <<genIn, gcVars, cmdVars, nodeVars>>

GenIdle ==
    /\ target = NilDS
    /\ genIn = [mod |-> [Name |-> "a", Selector |-> EmptyMap, ImageRepoSecret |-> NilSecret,
                         LoaderServiceAccount |-> "sa-ml",
                         Modprobe |-> [ModuleName |-> <<"kmm_ci_a">>, DirName |-> <<>>,
                                       FirmwarePath |-> <<>>, Parameters |-> <<>>,
                                       Args |-> NilArgs, RawArgs |-> NilArgs],
                         DevicePlugin |-> NilDevicePlugin],
                image |-> "", kernelVersion |-> "", schemeOK |-> TRUE]
    /\ genOut = NoGen

(***************************************************************************)
(* The node: its labels, and the node-label controller, which on a pod     *)
(* becoming ready sets the key GetNodeLabelFromPod names and on the pod's   *)
(* removal clears it.                                                      *)
(***************************************************************************)
PodLabelSets ==
    {EmptyMap, (DaemonSetRole :> "device-plugin"), (kernelLabel :> ""),
     (kernelLabel :> "5.10") @@ (DaemonSetRole :> "module-loader"),
     (kernelLabel :> "5.14")}

Pods == [module : ModNames, labels : PodLabelSets]

NoLabel == [called |-> FALSE, pod |-> [module |-> "", labels |-> EmptyMap], moduleName |-> "", key |-> ""]

Schedulable(selector, labels) ==
    \A k \in DOMAIN selector : k \in DOMAIN labels /\ labels[k] = selector[k]

\* A device-plugin pod becomes ready on the node only after the scheduler
\* placed it there, which takes the DaemonSet's node selector to match.
CanRun(pod) ==
    MapGet(pod.labels, kernelLabel) = devicePluginKernelVersion
      => /\ genOut.called = "plugin" /\ ~genOut.err
         /\ pod.module = genIn.mod.Name
         /\ Schedulable(target.spec.NodeSelector, nodeLabels)

PodReady ==
    \E pod \in Pods :
       /\ CanRun(pod)
       /\ LET key == GetNodeLabelFromPod(pod, pod.module) IN
          nodeLabels' = (key :> "") @@ nodeLabels
       /\ UNCHANGED <<lastLabel, gcVars, cmdVars, genVars>>

PodRemoved ==
    \E pod \in Pods :
       /\ LET key == GetNodeLabelFromPod(pod, pod.module) IN
          /\ key \in DOMAIN nodeLabels
          /\ nodeLabels' = [k \in DOMAIN nodeLabels \ {key} |-> nodeLabels[k]]
       /\ UNCHANGED <<lastLabel, gcVars, cmdVars, genVars>>

CallGetNodeLabelFromPod ==
    \E pod \in Pods, moduleName \in ModNames :
       /\ lastLabel' = [called |-> TRUE, pod |-> pod, moduleName |-> moduleName,
                        key |-> GetNodeLabelFromPod(pod, moduleName)]
       /\ UNCHANGED <<nodeLabels, gcVars, cmdVars, genVars>>

NodeIdle ==
    /\ nodeLabels = EmptyMap
    /\ lastLabel = NoLabel

(***************************************************************************)
(* The specifications.                                                     *)
(***************************************************************************)
InitGC ==
    /\ store \in Stores
    /\ lookup = NoLookup
    /\ validKernels = {}
    /\ gc = GCIdle
    /\ deleteCalls = <<>>
    /\ CmdIdle
    /\ GenIdle
    /\ NodeIdle

NextGC == ModuleDaemonSetsByKernelVersion \/ ApplyDaemonSet \/ GCStart \/ GCIterate \/ GCReturn

SpecGC == InitGC /\ [][NextGC]_vars

InitCmd ==
    /\ cmdIn \in [spec : ModprobeSpecs, modName : ModuleNames]
    /\ loadCmd = NotCalled
    /\ unloadCmd = NotCalled
    /\ store = EmptyMap
    /\ lookup = NoLookup
    /\ validKernels = {}
    /\ gc = GCIdle
    /\ deleteCalls = <<>>
    /\ GenIdle
    /\ NodeIdle

NextCmd == CallMakeLoadCommand \/ CallMakeUnloadCommand \/ EditModule

SpecCmd == InitCmd /\ [][NextCmd]_vars

GCUnused ==
    /\ store = EmptyMap
    /\ lookup = NoLookup
    /\ validKernels = {}
    /\ gc = GCIdle
    /\ deleteCalls = <<>>

InitGen ==
    /\ target \in DSObjects
    /\ genIn \in GenInputs
    /\ genOut = NoGen
    /\ NodeIdle
    /\ CmdIdle
    /\ GCUnused

NextGen == CallSetDriverContainerAsDesired \/ CallSetDevicePluginAsDesired

SpecGen == InitGen /\ [][NextGen]_vars

InitNode ==
    /\ target \in {d \in DSObjects : ~d.isNil /\ d.labels = EmptyMap}
    /\ genIn \in {g \in GenInputs : g.image # "" /\ g.kernelVersion # "" /\ g.schemeOK
                                     /\ g.mod.Selector = EmptyMap
                                     /\ g.mod.Modprobe.FirmwarePath = <<>>}
    /\ genOut = NoGen
    /\ nodeLabels \in {EmptyMap, ("kubernetes.io/hostname" :> "minikube")}
    /\ lastLabel = NoLabel
    /\ CmdIdle
    /\ GCUnused

NextNode == CallSetDevicePluginAsDesired \/ PodReady \/ PodRemoved \/ CallGetNodeLabelFromPod

SpecNode == InitNode /\ [][NextNode]_vars

(***************************************************************************)
(* Claims about the garbage collector and the index.                       *)
(***************************************************************************)
KernelTag(ds) == MapGet(ds.labels, kernelLabel)

OkNames == {deleteCalls[i].name : i \in {j \in 1..Len(deleteCalls) : deleteCalls[j].ok}}

\* C1: after GarbageCollect returned without error, no module-loader
\* DaemonSet of the map that is still in the store has a key outside
\* validKernels, and the device-plugin DaemonSet of the map was not deleted
\* and is not named in the returned list.
C1_CollectLeavesOnlyValid ==
    (gc.pc = "done" /\ ~gc.err) =>
        \A k \in DOMAIN lookup.map :
            LET ds == lookup.map[k] IN
            /\ (KernelTag(ds) # devicePluginKernelVersion /\ ds.name \in DOMAIN store)
                  => k \in validKernels
            /\ KernelTag(ds) = devicePluginKernelVersion
                  => /\ ds.name \in DOMAIN store
                     /\ \A i \in 1..Len(deleteCalls) : deleteCalls[i].name # ds.name
                     /\ \A i \in 1..Len(gc.ret.items) : gc.ret.items[i] # ds.name

C1_Witness ==
    /\ gc.pc = "done" /\ ~gc.err
    /\ devicePluginKernelVersion \in DOMAIN lookup.map
    /\ devicePluginKernelVersion \notin validKernels
    /\ Len(gc.ret.items) = 1
    /\ "5.14" \in validKernels /\ "5.10" \in DOMAIN lookup.map

\* C2: a failed delete is the last delete call GarbageCollect issues; it
\* ends the operation with an error and a nil list, and every DaemonSet
\* deleted before it stays out of the store.
C2_StopsAtFirstFailure ==
    /\ \A i \in 1..Len(deleteCalls) : ~deleteCalls[i].ok =>
           /\ i = Len(deleteCalls)
           /\ gc.pc = "done" /\ gc.err /\ gc.ret.isNil
    /\ (gc.pc = "done" /\ gc.err) =>
           /\ Len(deleteCalls) >= 1
           /\ ~deleteCalls[Len(deleteCalls)].ok
    /\ \A n \in OkNames : n \notin DOMAIN store

C2_Witness ==
    /\ gc.pc = "done" /\ gc.err
    /\ Len(deleteCalls) = 2
    /\ deleteCalls[1].ok
    /\ DOMAIN lookup.map \ gc.visited # {}

\* C3: when the list succeeded, ModuleDaemonSetsByKernelVersion fails if two
\* listed DaemonSets have the same kernel-version label value, and returns
\* no map then; otherwise it returns a map with one entry per listed
\* DaemonSet, each under its own kernel-version label value.
HasDuplicateKernel(items) ==
    \E i, j \in 1..Len(items) : i # j /\ KernelTag(items[i]) = KernelTag(items[j])

C3_DuplicateKernelIsError ==
    (lookup.called /\ ~lookup.listed.err) =>
        LET items == lookup.listed.items IN
        IF HasDuplicateKernel(items)
        THEN lookup.err /\ lookup.map = EmptyMap
        ELSE /\ ~lookup.err
             /\ Cardinality(DOMAIN lookup.map) = Len(items)
             /\ \A i \in 1..Len(items) :
                   /\ KernelTag(items[i]) \in DOMAIN lookup.map
                   /\ lookup.map[KernelTag(items[i])] = items[i]

C3_Witness ==
    /\ lookup.called /\ ~lookup.listed.err /\ lookup.err
    /\ HasDuplicateKernel(lookup.listed.items)
    /\ Len(lookup.listed.items) = 3

\* C10: every delete call of GarbageCollect is for an entry of the map whose
\* key is not in validKernels, no entry gets two calls, a step removes from
\* the store only the DaemonSet of the delete call it made, and on success
\* the returned list is the names of the delete calls, in order.
C10_CallsInv ==
    /\ \A i \in 1..Len(deleteCalls) :
          /\ deleteCalls[i].key \in DOMAIN lookup.map
          /\ lookup.map[deleteCalls[i].key].name = deleteCalls[i].name
          /\ deleteCalls[i].key \notin validKernels
          /\ \A j \in 1..Len(deleteCalls) : deleteCalls[j].key = deleteCalls[i].key => i = j
    /\ (gc.pc = "done" /\ ~gc.err) =>
          /\ ~gc.ret.isNil
          /\ gc.ret.items = [i \in 1..Len(deleteCalls) |-> deleteCalls[i].name]
          /\ \A i \in 1..Len(deleteCalls) : deleteCalls[i].ok

C10_StoreStep ==
    LET gone == DOMAIN store \ DOMAIN store' IN
    /\ \A n \in DOMAIN store \cap DOMAIN store' : store'[n] = store[n]
    /\ gone # {} =>
          /\ Len(deleteCalls') = Len(deleteCalls) + 1
          /\ deleteCalls'[Len(deleteCalls')].ok
          /\ gone = {deleteCalls'[Len(deleteCalls')].name}

\* C10: GarbageCollect deletes only entries of its map whose key is not in
\* validKernels, each at most once (C10_CallsInv), changes the store by
\* nothing else (C10_StoreStep), and returns the names it deleted.
C10_CollectFrame == [](C10_CallsInv) /\ [][C10_StoreStep]_vars

C10_Witness ==
    /\ gc.pc = "done" /\ ~gc.err
    /\ Len(gc.ret.items) = 2
    /\ Cardinality(DOMAIN lookup.map) = 2
    /\ Cardinality(DOMAIN store) = 1

(***************************************************************************)
(* Claims about the command synthesis.  The texts compared are the flat    *)
(* strings; the words of a command are its space-separated fields.         *)
(***************************************************************************)
RECURSIVE FieldsFrom(_, _, _, _)
FieldsFrom(s, i, cur, out) ==
    IF i > Len(s) THEN (IF cur = "" THEN out ELSE Append(out, cur))
    ELSE IF s[i] = " " THEN FieldsFrom(s, i + 1, "", IF cur = "" THEN out ELSE Append(out, cur))
    ELSE FieldsFrom(s, i + 1, cur \o s[i], out)

Fields(s) == FieldsFrom(s, 1, "", <<>>)

CountWord(ws, w) == Cardinality({i \in 1..Len(ws) : ws[i] = w})

RECURSIVE FlatJoin(_)
FlatJoin(list) ==
    IF list = <<>> THEN ""
    ELSE IF Len(list) = 1 THEN Flat(list[1])
    ELSE Flat(list[1]) \o " " \o FlatJoin(Tail(list))

FlatCommand(c) == <<Flat(c[1]), Flat(c[2]), Flat(c[3])>>

HasRawLoad(spec) == ~spec.RawArgs.isNil /\ Len(spec.RawArgs.Load) > 0

HasRawUnload(spec) == ~spec.RawArgs.isNil /\ Len(spec.RawArgs.Unload) > 0

\* C7: with RawArgs.Load non-empty the load command is ("/bin/sh", "-c",
\* "modprobe " + RawArgs.Load joined by spaces) whatever the other fields
\* are, and likewise the unload command with RawArgs.Unload; an edit of the
\* module that keeps the raw arguments of a direction keeps its command.
C7_RawInv ==
    /\ (loadCmd.called /\ HasRawLoad(cmdIn.spec)) =>
          FlatCommand(loadCmd.cmd)
             = <<"/bin/sh", "-c", "modprobe " \o FlatJoin(cmdIn.spec.RawArgs.Load)>>
    /\ (unloadCmd.called /\ HasRawUnload(cmdIn.spec)) =>
          FlatCommand(unloadCmd.cmd)
             = <<"/bin/sh", "-c", "modprobe " \o FlatJoin(cmdIn.spec.RawArgs.Unload)>>

C7_RawStep ==
    /\ (loadCmd.called /\ loadCmd'.called /\ HasRawLoad(cmdIn.spec)
          /\ cmdIn'.spec.RawArgs.Load = cmdIn.spec.RawArgs.Load)
         => FlatCommand(loadCmd'.cmd) = FlatCommand(loadCmd.cmd)
    /\ (unloadCmd.called /\ unloadCmd'.called /\ HasRawUnload(cmdIn.spec)
          /\ cmdIn'.spec.RawArgs.Unload = cmdIn.spec.RawArgs.Unload)
         => FlatCommand(unloadCmd'.cmd) = FlatCommand(unloadCmd.cmd)

\* C7: the raw arguments of a direction alone decide its command, in every
\* state (C7_RawInv) and across every edit of the module (C7_RawStep).
C7_RawArgsOnly == [](C7_RawInv) /\ [][C7_RawStep]_vars

C7_Witness ==
    /\ loadCmd.called /\ unloadCmd.called
    /\ HasRawLoad(cmdIn.spec) /\ HasRawUnload(cmdIn.spec)
    /\ cmdIn.spec.FirmwarePath # <<>> /\ cmdIn.spec.DirName # <<>>
    /\ Len(cmdIn.spec.Parameters) = 2 /\ Len(cmdIn.spec.Args.Load) > 0

\* C8 as stated: without RawArgs the load command contains the module name
\* exactly once (as a word), followed by the parameters in their order.
C8_Original ==
    (loadCmd.called /\ cmdIn.spec.RawArgs.isNil) =>
        LET ws == Fields(loadCmd.cmd[3])
            n == Len(cmdIn.spec.Parameters)
        IN /\ CountWord(ws, Flat(cmdIn.spec.ModuleName)) = 1
           /\ Len(ws) > n
           /\ ws[Len(ws) - n] = Flat(cmdIn.spec.ModuleName)
           /\ \A i \in 1..n : ws[Len(ws) - n + i] = Flat(cmdIn.spec.Parameters[i])

\* The text before the module name, as section 4.1 of the design lays it out.
ExpectedLoadPrefix(spec, modName) ==
    (IF spec.FirmwarePath # <<>>
     THEN "cp -r " \o Flat(spec.FirmwarePath) \o " /var/lib/firmware/" \o Flat(modName) \o " && "
     ELSE "")
    \o "modprobe "
    \o (IF ~spec.Args.isNil /\ Len(spec.Args.Load) > 0 THEN FlatJoin(spec.Args.Load) ELSE "-v")
    \o (IF spec.DirName # <<>> THEN " -d " \o Flat(spec.DirName) ELSE "")

RECURSIVE FieldsOfAll(_)
FieldsOfAll(list) ==
    IF list = <<>> THEN <<>> ELSE Fields(Head(list)) \o FieldsOfAll(Tail(list))

\* The words of every part of the load command but the module name.
OtherWords(spec, modName) ==
    (IF spec.FirmwarePath # <<>>
     THEN <<"cp", "-r">> \o Fields(spec.FirmwarePath)
            \o Fields(nodeVarLibFirmwarePath \o <<"/">> \o modName) \o <<"&&">>
     ELSE <<>>)
    \o <<"modprobe">>
    \o (IF ~spec.Args.isNil /\ Len(spec.Args.Load) > 0
        THEN FieldsOfAll(spec.Args.Load) ELSE <<"-v">>)
    \o (IF spec.DirName # <<>> THEN <<"-d">> \o Fields(spec.DirName) ELSE <<>>)
    \o FieldsOfAll(spec.Parameters)

\* C8 amended: without raw load arguments the load command is the parts in
\* the fixed order with ModuleName put in once, right before the parameters,
\* which keep their order; the name is a word of the command once more than
\* it is a word of the other parts, so exactly once when no other part has it.
C8_ModuleNameInsertedOnce ==
    (loadCmd.called /\ ~HasRawLoad(cmdIn.spec)) =>
        LET spec == cmdIn.spec
            name == Flat(spec.ModuleName)
            ws == Fields(loadCmd.cmd[3])
            n == Len(spec.Parameters)
        IN /\ Flat(loadCmd.cmd[1]) = "/bin/sh" /\ Flat(loadCmd.cmd[2]) = "-c"
           /\ Flat(loadCmd.cmd[3])
                = ExpectedLoadPrefix(spec, cmdIn.modName) \o " " \o name
                    \o (IF n > 0 THEN " " \o FlatJoin(spec.Parameters) ELSE "")
           /\ Len(ws) > Len(FieldsOfAll(spec.Parameters))
           /\ ws[Len(ws) - Len(FieldsOfAll(spec.Parameters))] = name
           /\ CountWord(ws, name) = 1 + CountWord(OtherWords(spec, cmdIn.modName), name)

C8_Witness ==
    /\ loadCmd.called /\ cmdIn.spec.RawArgs.isNil
    /\ cmdIn.spec.FirmwarePath # <<>> /\ cmdIn.spec.DirName = <<"/opt">>
    /\ cmdIn.spec.ModuleName = <<"kmm_ci_a">>
    /\ cmdIn.spec.Parameters = <<<<"p1=1">>, <<"m">>>>
    /\ CountWord(Fields(loadCmd.cmd[3]), "kmm_ci_a") = 1
    /\ Flat(loadCmd.cmd[3]) = "cp -r /firmware /var/lib/firmware/m && modprobe -v -d /opt kmm_ci_a p1=1 m"

(***************************************************************************)
(* Claims about the readiness label keys and the generators.               *)
(***************************************************************************)
DriverReadyKey(n) == "kmm.node.kubernetes.io/" \o n \o ".ready"

DevicePluginReadyKey(n) == "kmm.node.kubernetes.io/" \o n \o ".device-plugin-ready"

\* C4: GetNodeLabelFromPod gives the module's device-plugin-ready key when
\* the pod's kernel-version label is the empty string (or absent) and the
\* module's driver-ready key for any other value; the two keys differ.
C4_ReadinessKeyByKernelLabel ==
    lastLabel.called =>
        LET n == lastLabel.moduleName IN
        /\ DriverReadyKey(n) # DevicePluginReadyKey(n)
        /\ lastLabel.key \in {DriverReadyKey(n), DevicePluginReadyKey(n)}
        /\ (lastLabel.key = DevicePluginReadyKey(n))
              <=> (MapGet(lastLabel.pod.labels, kernelLabel) = "")
        /\ (lastLabel.key = DriverReadyKey(n))
              <=> (MapGet(lastLabel.pod.labels, kernelLabel) # "")

C4_Witness ==
    /\ lastLabel.called
    /\ lastLabel.pod.labels = (kernelLabel :> "")
    /\ lastLabel.moduleName = "b"
    /\ lastLabel.key = "kmm.node.kubernetes.io/b.device-plugin-ready"

\* C5: the node selector of the generated device-plugin DaemonSet has one
\* key, the driver-ready key GetNodeLabelFromPod gives for a module-loader
\* pod of the module, so the DaemonSet's pods are schedulable on the node
\* only while that label is set on it.
C5_DevicePluginGatedOnDriver ==
    (genOut.called = "plugin" /\ ~genOut.err) =>
        LET sel == target.spec.NodeSelector
            n == genIn.mod.Name
        IN /\ Cardinality(DOMAIN sel) = 1
           /\ \A kv \in KernelVersions :
                 DOMAIN sel = {GetNodeLabelFromPod([module |-> n, labels |-> (kernelLabel :> kv)], n)}
           /\ DOMAIN sel = {DriverReadyKey(n)}
           /\ Schedulable(sel, nodeLabels) <=>
                 (DriverReadyKey(n) \in DOMAIN nodeLabels /\ nodeLabels[DriverReadyKey(n)] = "")

C5_Witness ==
    /\ genOut.called = "plugin" /\ ~genOut.err
    /\ Schedulable(target.spec.NodeSelector, nodeLabels)
    /\ DevicePluginReadyKey(genIn.mod.Name) \in DOMAIN nodeLabels
    /\ DriverReadyKey("b") \in DOMAIN nodeLabels /\ genIn.mod.Name = "a"

\* C6 as stated: a generator that returns an error leaves the DaemonSet as
\* it was before the call, and one that returns success leaves it with the
\* controller reference to the module.
C6_NoPartialApply ==
    genOut.called # "none" =>
        /\ genOut.err => target = genOut.before
        /\ ~genOut.err => ControllerRef(genIn.mod.Name) \in target.ownerRefs

\* C9 as stated: without a pull secret the generated pod spec holds an
\* empty list that is not nil; with one, the one-element list.
C9_Original ==
    (genOut.called # "none" /\ ~genOut.err) =>
        LET ps == target.spec.ImagePullSecrets
            secret == genIn.mod.ImageRepoSecret
        IN IF secret.isNil THEN ~ps.isNil /\ ps.items = <<>>
           ELSE ~ps.isNil /\ ps.items = <<secret.name>>

\* C9 amended: without a pull secret GetPodPullSecrets returns, and both
\* generators place in the pod spec, the nil list; with one, the
\* one-element list holding it.
C9_NilListWhenNoSecret ==
    (genOut.called # "none" /\ ~genOut.err) =>
        LET ps == target.spec.ImagePullSecrets
            secret == genIn.mod.ImageRepoSecret
        IN /\ ps = GetPodPullSecrets(secret)
           /\ IF secret.isNil THEN ps.isNil /\ ps.items = <<>>
              ELSE ~ps.isNil /\ ps.items = <<secret.name>>

C9_Witness ==
    /\ genOut.called = "driver" /\ ~genOut.err
    /\ genIn.mod.ImageRepoSecret.isNil
    /\ target.spec.ImagePullSecrets.isNil
    /\ ~target.spec.isZero
=============================================================================
